---------------------------- MODULE Spec2Model ----------------------------
(* Posts <-> experts relation of core/server/models/relations/experts.js   *)
(* (lifecycle hooks, serialize, destroyByExpert, permissible) and the      *)
(* {{experts}} theme helper of core/frontend/helpers/experts.js.           *)
(*                                                                         *)
(* Every subsystem has its own variables and its own specification; while  *)
(* one subsystem runs, the variables of the others rest at Idle.           *)
EXTENDS Integers, Sequences, FiniteSets, TLC

VARIABLES
    model, sent, saveRes,       \* save(): onSaving, matchExperts, onCreating
    permIn, permRes,            \* permissible
    serModel, serOut,           \* onFetching and serialize
    db, txn,                    \* destroyByExpert
    helperIn, helperOut         \* the {{experts}} helper

saveVars == <<model, sent, saveRes>>
permVars == <<permIn, permRes>>
serVars == <<serModel, serOut>>
destroyVars == <<db, txn>>
helperVars == <<helperIn, helperOut>>
vars == <<saveVars, permVars, serVars, destroyVars, helperVars>>

Idle == "idle"

(***************************************************************************)
(* Users table.  Ids are ObjectId strings, hence always truthy.            *)
(***************************************************************************)
UNDEFINED == "undefined"
Users == {"u1", "u2", "u3"}
Owner == "u1"
UnknownId == "ux"
\* contextUser(options) of the request that saves.
ContextUser == "u3"

UserSlug(u) == CASE u = "u1" -> "s1" [] u = "u2" -> "s2" [] OTHER -> "s3"
UserEmail(u) == CASE u = "u1" -> "e1" [] u = "u2" -> "e2" [] OTHER -> "e3"

\* Bounds of the enumerated inputs.
MaxSent == 2
MaxRelated == 2

RECURSIVE SeqsUpTo(_, _)
SeqsUpTo(S, n) ==
    IF n = 0 THEN {<<>>}
    ELSE LET shorter == SeqsUpTo(S, n - 1)
         IN shorter \cup {Append(s, x) : s \in {t \in shorter : Len(t) = n - 1}, x \in S}

NoDup(s) == \A i, j \in 1..Len(s) : i # j => s[i] # s[j]

(***************************************************************************)
(* An entry of the `experts` attribute as a client sends it: it names a    *)
(* user by id, by slug or by email.                                        *)
(***************************************************************************)
ExpertEntry(id, slug, email) == [id |-> id, slug |-> slug, email |-> email]
IdOnly(id) == ExpertEntry(id, UNDEFINED, UNDEFINED)
Hole == ExpertEntry("<empty>", UNDEFINED, UNDEFINED)

\* The owner by id, one other user by id, by slug and by email, and an id no
\* user has.
SentEntries ==
    {IdOnly(Owner), IdOnly("u2"), IdOnly(UnknownId),
     ExpertEntry(UNDEFINED, "s2", UNDEFINED),
     ExpertEntry(UNDEFINED, UNDEFINED, "e2")}

\* The relation as stored: at least one expert, no user twice.
RelatedLists == {s \in SeqsUpTo(Users, MaxRelated) : Len(s) >= 1 /\ NoDup(s)}

(***************************************************************************)
(* matchExperts                                                            *)
(***************************************************************************)
\* User.where(query).fetch(): the user the entry names, or null.
FetchUser(expert) ==
    LET hits == IF expert.id # UNDEFINED THEN {u \in Users : u = expert.id}
                ELSE IF expert.slug # UNDEFINED
                     THEN {u \in Users : UserSlug(u) = expert.slug}
                     ELSE {u \in Users : UserEmail(u) = expert.email}
    IN IF hits = {} THEN UNDEFINED ELSE CHOOSE u \in hits : TRUE

\* `userId.id`: userId is already the id string, so the property is undefined.
DuplicateKey(userId) == UNDEFINED

\* _.find(expertsToSet, {id: key}): an entry whose id is strictly equal to key.
LodashFind(expertsToSet, key) ==
    \E i \in 1..Len(expertsToSet) :
        expertsToSet[i] # Hole /\ expertsToSet[i].id = key

\* expertsToSet[index] = value on a JS array: slots skipped before index stay empty.
SetIndex(arr, index, value) ==
    IF index <= Len(arr) THEN [arr EXCEPT ![index] = value]
    ELSE arr \o [k \in 1..(index - Len(arr) - 1) |-> Hole] \o <<value>>

RECURSIVE MatchLoop(_, _, _)
MatchLoop(experts, index, expertsToSet) ==
    IF index > Len(experts) THEN expertsToSet
    ELSE LET user == FetchUser(experts[index])
             userId == IF user # UNDEFINED THEN user ELSE Owner
             userExists == LodashFind(expertsToSet, DuplicateKey(userId))
         IN MatchLoop(experts, index + 1,
                      IF ~userExists
                      THEN SetIndex(expertsToSet, index, IdOnly(userId))
                      ELSE expertsToSet)

matchExperts(m) == [m EXCEPT !.experts = MatchLoop(m.experts, 1, <<>>)]

\* One getOwnerUser query and one User fetch per entry.
MatchLookups(m) == 1 + Len(m.experts)

(***************************************************************************)
(* onSaving                                                                *)
(***************************************************************************)
hasChanged(m) == m.expert_id # m.prev_expert_id

\* model.related('experts').toJSON() with its first entry overridden.
OverridePrimary(m) ==
    LET existingExperts == [i \in 1..Len(m.related) |-> IdOnly(m.related[i])]
    IN [m EXCEPT !.hasExperts = TRUE,
                 !.experts = SetIndex(existingExperts, 1, IdOnly(m.expert_id))]

\* The rejection made only for a changed expert_id.
NoExpertLeftOnChange(m) == m.hasExperts /\ Len(m.experts) = 0 /\ hasChanged(m)
\* CASE: you can't delete all experts
NoExpertLeft(m) == m.hasExperts /\ Len(m.experts) = 0

\* CASE: `post.expert_id` has changed
ReconcileChanged(m) ==
    IF hasChanged(m)
    THEN IF ~m.hasExperts THEN OverridePrimary(m)
         ELSE IF m.experts[1].id # m.expert_id
              THEN [m EXCEPT !.expert_id = m.experts[1].id]
              ELSE m
    ELSE m

\* The reconciliation without its closing "ensure we update the primary
\* expert id" branch.
ReconcileChangedOnly(m) == ReconcileChanged(m)
\* The second op of onSaving, up to the call of the parent's onSaving.
Reconcile(m) ==
    LET m1 == ReconcileChanged(m)
    IN IF hasChanged(m1) /\ ~m1.hasExperts THEN OverridePrimary(m1)
       ELSE IF m1.hasExperts /\ Len(m1.experts) > 0
            THEN [m1 EXCEPT !.expert_id = m1.experts[1].id]
            ELSE m1

SaveResult(pc, err, lookups, parentCalled, matched) ==
    [pc |-> pc, err |-> err, lookups |-> lookups,
     parentCalled |-> parentCalled, matched |-> matched]

OnSaving ==
    /\ saveRes.pc = "init"
    /\ LET m0 == [model EXCEPT !.expert = FALSE]
       IN IF NoExpertLeft(m0)
          THEN /\ model' = m0
               /\ saveRes' = SaveResult("failed", "ValidationError", 0, FALSE, FALSE)
          ELSE LET m1 == IF m0.hasExperts THEN matchExperts(m0) ELSE m0
                   n == IF m0.hasExperts THEN MatchLookups(m0) ELSE 0
               IN /\ model' = Reconcile(m1)
                  /\ \E parentOk \in BOOLEAN :
                        saveRes' = SaveResult(IF parentOk THEN "saved" ELSE "failed",
                                              IF parentOk THEN "none" ELSE "ParentError",
                                              n, TRUE, m0.hasExperts)
    /\ UNCHANGED <<sent, permVars, serVars, destroyVars, helperVars>>

(***************************************************************************)
(* onCreating: runs after onSaving when the model is new.                  *)
(***************************************************************************)
OnCreating ==
    /\ saveRes.pc = "saved"
    /\ model.isNew
    /\ LET m1 == IF model.expert_id = UNDEFINED
                 THEN IF model.hasExperts
                      THEN [model EXCEPT !.expert_id = model.experts[1].id]
                      ELSE [model EXCEPT !.expert_id = model.contextUser]
                 ELSE model
           m2 == IF ~m1.hasExperts
                 THEN [m1 EXCEPT !.hasExperts = TRUE,
                                 !.experts = <<IdOnly(m1.expert_id)>>]
                 ELSE m1
       IN model' = m2
    /\ saveRes' = [saveRes EXCEPT !.pc = "created"]
    /\ UNCHANGED <<sent, permVars, serVars, destroyVars, helperVars>>

\* The post before the save: a new one, or one fetched for update with its
\* experts loaded.
PriorPosts ==
    {[isNew |-> TRUE, related |-> <<>>, prev |-> UNDEFINED]}
        \cup {[isNew |-> FALSE, related |-> r, prev |-> r[1]] : r \in RelatedLists}

\* The model with what the client set: expert_id e (UNDEFINED: not set), the
\* experts list x when h, the deprecated `expert` attribute when d.
SaveInput(p, e, h, x, d) ==
    [isNew |-> p.isNew,
     related |-> p.related,
     prev_expert_id |-> p.prev,
     expert_id |-> IF e = UNDEFINED THEN p.prev ELSE e,
     hasExperts |-> h,
     experts |-> IF h THEN x ELSE <<>>,
     expert |-> d,
     contextUser |-> ContextUser]

InitSave ==
    /\ \E p \in PriorPosts, e \in Users \cup {UNDEFINED}, h \in BOOLEAN,
          x \in SeqsUpTo(SentEntries, MaxSent), d \in BOOLEAN :
          model = SaveInput(p, e, h, x, d)
    /\ sent = model
    /\ saveRes = SaveResult("init", "none", 0, FALSE, FALSE)
    /\ permIn = Idle /\ permRes = Idle
    /\ serModel = Idle /\ serOut = Idle
    /\ db = Idle /\ txn = Idle
    /\ helperIn = Idle /\ helperOut = Idle

NextSave == OnSaving \/ OnCreating

SpecSave == InitSave /\ [][NextSave]_vars

(***************************************************************************)
(* Properties of save()                                                    *)
(***************************************************************************)
SaveSucceeded == saveRes.pc \in {"saved", "created"}
SentExperts == sent.hasExperts /\ Len(sent.experts) > 0
SentExpertIdChange == sent.expert_id # sent.prev_expert_id

\* C1: after a successful onSaving of a model for which a non-empty `experts`
\* list was sent or `expert_id` was changed, `experts` is non-empty and
\* `expert_id` is the id of experts[0]; when both were sent, the first entry of
\* `experts` decides: if it names an existing user by id, `expert_id` is that id.
C1_PrimaryExpertReconciled ==
    (SaveSucceeded /\ (SentExperts \/ SentExpertIdChange)) =>
        /\ model.hasExperts
        /\ Len(model.experts) > 0
        /\ model.experts[1] # Hole
        /\ model.expert_id = model.experts[1].id
        /\ (SentExperts /\ sent.experts[1].id \in Users)
               => model.expert_id = sent.experts[1].id
        /\ (~sent.hasExperts) => model.expert_id = sent.expert_id

C1_Witness ==
    /\ saveRes.pc = "saved"
    /\ SentExperts
    /\ SentExpertIdChange
    /\ sent.experts[1].id \in Users
    /\ sent.experts[1].id # sent.expert_id
    /\ model.expert_id = sent.experts[1].id

\* C2: onSaving of a model whose `experts` attribute is an empty list fails with
\* the ValidationError before any user lookup, before `expert_id` or `experts`
\* change and before the parent's onSaving is called.
C2_EmptyExpertsRejectedFirst ==
    (sent.hasExperts /\ Len(sent.experts) = 0 /\ saveRes.pc # "init") =>
        /\ saveRes.pc = "failed"
        /\ saveRes.err = "ValidationError"
        /\ saveRes.lookups = 0
        /\ ~saveRes.parentCalled
        /\ model.expert_id = sent.expert_id
        /\ model.hasExperts = sent.hasExperts
        /\ model.experts = sent.experts

C2_Witness ==
    /\ sent.hasExperts
    /\ sent.experts = <<>>
    /\ sent.expert_id # sent.prev_expert_id
    /\ saveRes.err = "ValidationError"

\* C10: after matchExperts the `experts` list holds no user id twice and has
\* no empty slot.
C10_NoDuplicateExperts ==
    saveRes.matched =>
        /\ \A i \in 1..Len(model.experts) : model.experts[i] # Hole
        /\ \A i, j \in 1..Len(model.experts) :
               i # j => model.experts[i].id # model.experts[j].id

(***************************************************************************)
(* permissible                                                             *)
(*                                                                         *)
(* An input p: the action, how the post is named (p.ref: "none" for an     *)
(* add, an "id" that findOne resolves, a "missing" id, or the "model"      *)
(* itself), the post's experts in order (p.experts, expert_id being the    *)
(* first), context.user, the roles of loadedPermissions.user, the incoming *)
(* attributes and the three incoming permission flags.                     *)
(***************************************************************************)
MaxUnsafe == 1

RoleNames == {"Contributor", "Expert", "Editor"}
Actions == {"edit", "add", "destroy"}
\* The users that incoming attributes name.
UnsafeIds == {"u1", "u2"}
\* The post as findOne loads it, with its experts.
PermPosts == RelatedLists

\* postModel.get('expert_id')
PostExpertId(p) == p.experts[1]

isChanging(p) ==
    p.unsafeExpertId # UNDEFINED /\ p.unsafeExpertId # PostExpertId(p)

\* An empty incoming list taken for no change.
isChangingExpertsUnlessEmpty(p) ==
    IF ~p.unsafeHasExperts THEN FALSE
    ELSE IF Len(p.unsafeExperts) = 0 THEN FALSE
    ELSE p.unsafeExperts[1] # p.experts[1]

isChangingExperts(p) ==
    IF ~p.unsafeHasExperts THEN FALSE
    ELSE IF Len(p.unsafeExperts) = 0 THEN TRUE
    ELSE p.unsafeExperts[1] # p.experts[1]

\* Without the early return for an add that names no owner.
isOwnerByDefault(p) ==
    LET byId == IF p.unsafeExpertId # UNDEFINED
                THEN p.unsafeExpertId = p.user ELSE TRUE
    IN IF p.unsafeHasExperts
       THEN byId /\ Len(p.unsafeExperts) > 0 /\ p.unsafeExperts[1] = p.user
       ELSE byId

isOwner(p) ==
    IF p.unsafeExpertId = UNDEFINED /\ ~p.unsafeHasExperts THEN FALSE
    ELSE LET byId == IF p.unsafeExpertId # UNDEFINED
                     THEN p.unsafeExpertId = p.user ELSE TRUE
         IN IF p.unsafeHasExperts
            THEN byId /\ Len(p.unsafeExperts) > 0 /\ p.unsafeExperts[1] = p.user
            ELSE byId

\* Any expert of the post taken for its primary expert.
isAnyExpert(p) == \E i \in 1..Len(p.experts) : p.experts[i] = p.user

isPrimaryExpert(p) == p.user = p.experts[1]

isCoExpert(p) == \E i \in 1..Len(p.experts) : p.experts[i] = p.user

\* The role/action branches: the value of hasUserPermission after them.
UserPermission(p) ==
    LET isContributor == "Contributor" \in p.roles
        isExpert == "Expert" \in p.roles
        isEdit == p.action = "edit"
        isAdd == p.action = "add"
        isDestroy == p.action = "destroy"
    IN IF isContributor /\ isEdit
       THEN ~isChanging(p) /\ ~isChangingExperts(p) /\ isCoExpert(p)
       ELSE IF isContributor /\ isAdd THEN isOwner(p)
       ELSE IF isContributor /\ isDestroy THEN isPrimaryExpert(p)
       ELSE IF isExpert /\ isEdit
       THEN isCoExpert(p) /\ ~isChanging(p) /\ ~isChangingExperts(p)
       ELSE IF isExpert /\ isAdd THEN isOwner(p)
       ELSE IF p.ref # "none" THEN p.hasUserPermission \/ isPrimaryExpert(p)
       ELSE p.hasUserPermission

PermResult(outcome, excludesExperts) ==
    [outcome |-> outcome, excludesExperts |-> excludesExperts]

\* An id that findOne does not resolve.
PermissibleNotFound ==
    /\ permRes.outcome = "pending"
    /\ permIn.ref = "missing"
    /\ permRes' = PermResult("NotFoundError", FALSE)
    /\ UNCHANGED <<permIn, saveVars, serVars, destroyVars, helperVars>>

\* The permission is refused here.
PermissibleReject ==
    /\ permRes.outcome = "pending"
    /\ permIn.ref # "missing"
    /\ ~(UserPermission(permIn) /\ permIn.hasApiKeyPermission /\ permIn.hasAppPermission)
    /\ permRes' = PermResult("NoPermissionError", FALSE)
    /\ UNCHANGED <<permIn, saveVars, serVars, destroyVars, helperVars>>

\* The decision is handed to Post.permissible, which resolves or rejects.
PermissibleDelegate ==
    /\ permRes.outcome = "pending"
    /\ permIn.ref # "missing"
    /\ UserPermission(permIn) /\ permIn.hasApiKeyPermission /\ permIn.hasAppPermission
    /\ \E parentResolves \in BOOLEAN :
          permRes' = IF parentResolves
                     THEN PermResult("resolved",
                                     permIn.roles \cap {"Contributor", "Expert"} # {})
                     ELSE PermResult("NoPermissionError", FALSE)
    /\ UNCHANGED <<permIn, saveVars, serVars, destroyVars, helperVars>>

\* An incoming `experts` entry is given by its id, UNDEFINED when it names the
\* user by slug or email only.
PermInput(a, r, x, u, ro, e, h, ux, hu, hk, ha) ==
    [action |-> a, ref |-> r, experts |-> x, user |-> u, roles |-> ro,
     unsafeExpertId |-> e, unsafeHasExperts |-> h,
     unsafeExperts |-> IF h THEN ux ELSE <<>>,
     hasUserPermission |-> hu, hasApiKeyPermission |-> hk, hasAppPermission |-> ha]

RoleSets == SUBSET RoleNames

\* An add names no post; an edit or a destroy names one, by id or as a model,
\* or by an id that no post has.
InitPerm ==
    /\ \/ \E a \in Actions, r \in {"id", "model"}, x \in PermPosts,
             u \in Users, ro \in RoleSets, e \in UnsafeIds \cup {UNDEFINED},
             h \in BOOLEAN, ux \in SeqsUpTo(UnsafeIds \cup {UNDEFINED}, MaxUnsafe),
             hu \in BOOLEAN, hk \in BOOLEAN, ha \in BOOLEAN :
             permIn = PermInput(a, IF a = "add" THEN "none" ELSE r,
                                x, u, ro, e, h, ux, hu, hk, ha)
       \/ \E a \in {"edit", "destroy"}, u \in Users, ro \in RoleSets, hu \in BOOLEAN :
             permIn = PermInput(a, "missing", <<"u1">>, u, ro, UNDEFINED, FALSE, <<>>,
                                hu, TRUE, TRUE)
    /\ permRes = PermResult("pending", FALSE)
    /\ model = Idle /\ sent = Idle /\ saveRes = Idle
    /\ serModel = Idle /\ serOut = Idle
    /\ db = Idle /\ txn = Idle
    /\ helperIn = Idle /\ helperOut = Idle

NextPerm == PermissibleNotFound \/ PermissibleReject \/ PermissibleDelegate

SpecPerm == InitPerm /\ [][NextPerm]_vars

(***************************************************************************)
(* Properties of permissible                                               *)
(***************************************************************************)
PermDecided == permRes.outcome # "pending"
PermFoundPost == permIn.ref \in {"id", "model"}
ByContributorOrExpert == permIn.roles \cap {"Contributor", "Expert"} # {}

\* The acting user is one of the post's current experts.
AmongCurrentExperts == permIn.user \in {permIn.experts[i] : i \in 1..Len(permIn.experts)}
\* The incoming attributes leave expert_id and the primary expert as they are.
KeepsExpertId ==
    permIn.unsafeExpertId = UNDEFINED \/ permIn.unsafeExpertId = permIn.experts[1]
KeepsPrimaryExpert ==
    \/ ~permIn.unsafeHasExperts
    \/ Len(permIn.unsafeExperts) > 0 /\ permIn.unsafeExperts[1] = permIn.experts[1]
EditAllowed == AmongCurrentExperts /\ KeepsExpertId /\ KeepsPrimaryExpert

\* C3: an edit by a Contributor or Expert is granted only to one of the post's
\* current experts whose incoming attributes change neither expert_id nor the
\* primary expert; every other edit is rejected with NoPermissionError,
\* whatever the incoming hasUserPermission.
C3_EditOnlyByCoExpert ==
    (PermDecided /\ PermFoundPost /\ permIn.action = "edit" /\ ByContributorOrExpert) =>
        /\ permRes.outcome = "resolved" => EditAllowed
        /\ ~EditAllowed => permRes.outcome = "NoPermissionError"

C3_Witness ==
    /\ permIn.action = "edit"
    /\ ByContributorOrExpert
    /\ permRes.outcome = "resolved"
    /\ Len(permIn.experts) = 2
    /\ permIn.user = permIn.experts[2]
    /\ permIn.unsafeHasExperts
    /\ ~permIn.hasUserPermission

\* The incoming attributes name the acting user as owner.
NamesUserAsOwner ==
    /\ permIn.unsafeExpertId # UNDEFINED \/ permIn.unsafeHasExperts
    /\ permIn.unsafeExpertId # UNDEFINED => permIn.unsafeExpertId = permIn.user
    /\ permIn.unsafeHasExperts =>
           Len(permIn.unsafeExperts) > 0 /\ permIn.unsafeExperts[1] = permIn.user

\* C4: an add by a Contributor or Expert is granted only if the incoming
\* attributes name the acting user as owner; an add that supplies neither
\* expert_id nor experts is rejected with NoPermissionError.
C4_AddOnlyByOwner ==
    (PermDecided /\ permIn.action = "add" /\ ByContributorOrExpert) =>
        /\ permRes.outcome = "resolved" => NamesUserAsOwner
        /\ ~NamesUserAsOwner => permRes.outcome = "NoPermissionError"

C4_Witness ==
    /\ permIn.action = "add"
    /\ ByContributorOrExpert
    /\ permRes.outcome = "resolved"
    /\ permIn.unsafeExpertId = permIn.user
    /\ permIn.unsafeHasExperts
    /\ ~permIn.hasUserPermission

\* C5: a destroy by a Contributor is granted only to the post's primary
\* expert; a secondary expert or a stranger is rejected with
\* NoPermissionError even when the incoming hasUserPermission is true.
C5_DestroyOnlyByPrimaryExpert ==
    (PermDecided /\ PermFoundPost /\ permIn.action = "destroy"
        /\ "Contributor" \in permIn.roles) =>
        /\ permRes.outcome = "resolved" => permIn.user = permIn.experts[1]
        /\ permIn.user # permIn.experts[1] => permRes.outcome = "NoPermissionError"

C5_Witness ==
    /\ permIn.action = "destroy"
    /\ "Contributor" \in permIn.roles
    /\ permIn.hasUserPermission /\ permIn.hasApiKeyPermission /\ permIn.hasAppPermission
    /\ Len(permIn.experts) = 2
    /\ permIn.user = permIn.experts[2]
    /\ permRes.outcome = "NoPermissionError"

(***************************************************************************)
(* onFetching / onFetchingCollection / onFetchedCollection and serialize   *)
(*                                                                         *)
(* serModel is a post instance: the stored row (expert_id, and the ids of  *)
(* its posts_experts rows in order), the options of the fetch              *)
(* (withRelated, forUpdate), whether the expert_id column was selected,    *)
(* what the fetch left on the instance (_originalOptions, the loaded       *)
(* relation) and the `columns` option serialize is called with.            *)
(***************************************************************************)
MaxWithRelated == 2

RelationNames == {"expert", "experts", "tags"}
ColumnNames == {"expert", "primary_expert", "title"}

\* A value of a serialized attribute.
Val(kind, id) == [kind |-> kind, id |-> id]
NoKey == Val("absent", UNDEFINED)
Undef == Val("undefined", UNDEFINED)
Null == Val("null", UNDEFINED)
IdVal(id) == Val("id", id)
UserObject(id) == Val("object", id)

Contains(s, x) == \E i \in 1..Len(s) : s[i] = x
IndexOf(s, x) == CHOOSE i \in 1..Len(s) : s[i] = x /\ \A j \in 1..(i - 1) : s[j] # x
\* withRelated.splice(i, 1)
Splice(s, i) == [k \in 1..(Len(s) - 1) |-> IF k < i THEN s[k] ELSE s[k + 1]]

\* _.pick(options, ['withRelated']) without the deep copy: the array is shared
\* with options.withRelated and sees its later changes.
RememberAliased(requested, effective) == effective
\* _.cloneDeep(_.pick(options, ['withRelated']))
RememberOriginal(requested, effective) == requested

\* innerHandleOptions on a fetch: the relations to load and what is remembered.
HandleOptions(opts, fnName) ==
    LET w0 == IF opts.hasWithRelated THEN opts.withRelated ELSE <<>>
        w1 == IF Contains(w0, "expert")
              THEN Append(Splice(w0, IndexOf(w0, "expert")), "experts")
              ELSE w0
        w2 == IF opts.forUpdate
                 /\ fnName \in {"onFetching", "onFetchingCollection"}
                 /\ ~Contains(w1, "experts")
              THEN Append(w1, "experts")
              ELSE w1
        requested == [hasWithRelated |-> opts.hasWithRelated, withRelated |-> opts.withRelated]
        effective == [hasWithRelated |-> TRUE, withRelated |-> w2]
    IN [original |-> RememberOriginal(requested, effective), withRelated |-> w2]

\* The fetch itself loads the relations options.withRelated names at that point.
Loaded(inst, h) ==
    [inst EXCEPT !.pc = "fetched",
                 !.hasOriginal = TRUE,
                 !.original = h.original,
                 !.loaded = Contains(h.withRelated, "experts"),
                 !.relatedExperts = IF Contains(h.withRelated, "experts")
                                    THEN inst.post.experts ELSE <<>>]

OnFetching ==
    /\ serModel.pc = "new"
    /\ serModel' = Loaded(serModel, HandleOptions(serModel.options, "onFetching"))
    /\ UNCHANGED <<serOut, saveVars, permVars, destroyVars, helperVars>>

\* The collection remembers the options; its models have none yet.
OnFetchingCollection ==
    /\ serModel.pc = "new"
    /\ LET h == HandleOptions(serModel.options, "onFetchingCollection")
       IN serModel' = [Loaded(serModel, h) EXCEPT !.pc = "collection",
                                                  !.hasOriginal = FALSE,
                                                  !.collectionOriginal = h.original]
    /\ UNCHANGED <<serOut, saveVars, permVars, destroyVars, helperVars>>

OnFetchedCollection ==
    /\ serModel.pc = "collection"
    /\ serModel' = [serModel EXCEPT !.pc = "fetched",
                                    !.hasOriginal = TRUE,
                                    !.original = serModel.collectionOriginal]
    /\ UNCHANGED <<serOut, saveVars, permVars, destroyVars, helperVars>>

SerOut(threw, expert, expert_id, hasExperts, experts, primary_expert) ==
    [threw |-> threw, expert |-> expert, expert_id |-> expert_id,
     hasExperts |-> hasExperts, experts |-> experts, primary_expert |-> primary_expert]

\* proto.serialize: the selected columns and the loaded relations.
ParentSerialize(inst) ==
    SerOut("none", NoKey,
           IF inst.hasExpertId THEN IdVal(inst.post.expert_id) ELSE NoKey,
           inst.loaded,
           [i \in 1..Len(inst.relatedExperts) |-> UserObject(inst.relatedExperts[i])],
           NoKey)

ColumnsAllow(inst, column) == ~inst.hasColumns \/ column \in inst.columns

\* The deprecated `expert` key.
SerializeExpert(inst, attrs) ==
    LET orig == IF inst.hasOriginal THEN inst.original
                ELSE [hasWithRelated |-> FALSE, withRelated |-> <<>>]
    IN IF orig.hasWithRelated /\ Contains(orig.withRelated, "expert")
       THEN IF Len(inst.relatedExperts) = 0
            THEN [attrs EXCEPT !.threw = "ValidationError"]
            ELSE [attrs EXCEPT !.expert = attrs.experts[1], !.expert_id = NoKey]
       ELSE IF ColumnsAllow(inst, "expert")
            THEN [attrs EXCEPT !.expert = IF attrs.expert_id = NoKey THEN Undef
                                          ELSE attrs.expert_id,
                               !.expert_id = NoKey]
            ELSE attrs

\* `experts` is dropped unless it was requested.
SerializeExperts(inst, attrs) ==
    IF ~inst.hasOriginal \/ ~inst.original.hasWithRelated
          \/ ~Contains(inst.original.withRelated, "experts")
    THEN [attrs EXCEPT !.hasExperts = FALSE, !.experts = <<>>]
    ELSE attrs

\* The computed primary_expert.
SerializePrimary(inst, attrs) ==
    IF ColumnsAllow(inst, "primary_expert")
    THEN IF attrs.hasExperts /\ Len(attrs.experts) > 0
         THEN [attrs EXCEPT !.primary_expert = attrs.experts[1]]
         ELSE [attrs EXCEPT !.primary_expert = Null]
    ELSE attrs

serialize(inst) ==
    LET a1 == SerializeExpert(inst, ParentSerialize(inst))
    IN IF a1.threw # "none" THEN a1
       ELSE SerializePrimary(inst, SerializeExperts(inst, a1))

\* serialize of a fetched instance, or of one that was never fetched.
Serialize ==
    /\ serModel.pc \in {"new", "fetched"}
    /\ serOut' = serialize(serModel)
    /\ serModel' = [serModel EXCEPT !.pc = "serialized"]
    /\ UNCHANGED <<saveVars, permVars, destroyVars, helperVars>>

\* Stored posts: expert_id is the first expert; a post whose posts_experts rows
\* are missing keeps its expert_id.
SerPosts ==
    {[expert_id |-> x[1], experts |-> x] : x \in RelatedLists}
        \cup {[expert_id |-> u, experts |-> <<>>] : u \in {Owner}}

SerInstance(p, hw, w, fu, he, hc, c) ==
    [pc |-> "new", post |-> p,
     options |-> [hasWithRelated |-> hw,
                  withRelated |-> IF hw THEN w ELSE <<>>,
                  forUpdate |-> fu],
     hasExpertId |-> he,
     hasColumns |-> hc, columns |-> IF hc THEN c ELSE {},
     hasOriginal |-> FALSE,
     original |-> [hasWithRelated |-> FALSE, withRelated |-> <<>>],
     collectionOriginal |-> [hasWithRelated |-> FALSE, withRelated |-> <<>>],
     loaded |-> FALSE, relatedExperts |-> <<>>]

InitSer ==
    /\ \E p \in SerPosts, hw \in BOOLEAN, w \in SeqsUpTo(RelationNames, MaxWithRelated),
          fu \in BOOLEAN, he \in BOOLEAN, hc \in BOOLEAN, c \in SUBSET ColumnNames :
          serModel = SerInstance(p, hw, w, fu, he, hc, c)
    /\ serOut = SerOut("pending", NoKey, NoKey, FALSE, <<>>, NoKey)
    /\ model = Idle /\ sent = Idle /\ saveRes = Idle
    /\ permIn = Idle /\ permRes = Idle
    /\ db = Idle /\ txn = Idle
    /\ helperIn = Idle /\ helperOut = Idle

NextSer == OnFetching \/ OnFetchingCollection \/ OnFetchedCollection \/ Serialize

SpecSer == InitSer /\ [][NextSer]_vars

(***************************************************************************)
(* Properties of serialize                                                 *)
(***************************************************************************)
Serialized == serModel.pc = "serialized"
\* The fetch that produced the instance asked for relation r.
FetchRequested(r) ==
    /\ serModel.hasOriginal
    /\ serModel.options.hasWithRelated
    /\ Contains(serModel.options.withRelated, r)
ColumnsAbsentOrHave(c) == ~serModel.hasColumns \/ c \in serModel.columns

\* C6: if the fetch requested 'expert', the serialized post has `expert` = the
\* object of the first expert and no `expert_id` key, and serialize throws the
\* ValidationError when the post has no related experts; if 'expert' was not
\* requested and `columns` is absent or contains 'expert', `expert` is the
\* value of `expert_id` and there is no `expert_id` key.
C6_DeprecatedExpertShim ==
    Serialized =>
        /\ FetchRequested("expert") =>
              IF Len(serModel.post.experts) = 0
              THEN serOut.threw = "ValidationError"
              ELSE /\ serOut.threw = "none"
                   /\ serOut.expert = UserObject(serModel.post.experts[1])
                   /\ serOut.expert_id = NoKey
        /\ (~FetchRequested("expert") /\ ColumnsAbsentOrHave("expert")) =>
              /\ serOut.threw = "none"
              /\ serOut.expert = IF serModel.hasExpertId
                                 THEN IdVal(serModel.post.expert_id) ELSE Undef
              /\ serOut.expert_id = NoKey

C6_Witness ==
    /\ Serialized
    /\ FetchRequested("expert")
    /\ ~FetchRequested("experts")
    /\ ~serModel.options.forUpdate
    /\ serModel.hasColumns /\ "expert" \notin serModel.columns
    /\ Len(serModel.post.experts) = 2
    /\ serOut.expert = UserObject(serModel.post.experts[1])
    /\ serOut.expert_id = NoKey

\* C7: whenever `columns` is absent or contains 'primary_expert', serialize
\* attaches primary_expert = the first expert of the post, null only when the
\* post has no experts, whatever relations the fetch requested; stated for the
\* instances whose experts were fetched, requested or not.
C7_PrimaryExpertIsFirstExpert ==
    (Serialized /\ serModel.loaded /\ serOut.threw = "none"
        /\ ColumnsAbsentOrHave("primary_expert")) =>
        serOut.primary_expert = IF Len(serModel.post.experts) > 0
                                THEN UserObject(serModel.post.experts[1])
                                ELSE Null

(***************************************************************************)
(* destroyByExpert                                                         *)
(*                                                                         *)
(* db is the committed database: per post whether its row exists, its      *)
(* expert_id column and its posts_experts rows in order.  txn is the call: *)
(* options.id, whether the caller passed `transacting`, the database as    *)
(* the transaction sees it (work), and how far the call got.               *)
(***************************************************************************)
PostIds == {"p1", "p2", "p3"}

PostRow(alive, expert_id, rows) == [alive |-> alive, expert_id |-> expert_id, rows |-> rows]

\* postCollection.query('where', 'expert_id', '=', expertId).fetch()
PostsByExpertId(d, expertId) == {p \in PostIds : d[p].alive /\ d[p].expert_id = expertId}

\* destroy of one post: the row goes, and bookshelf-relations removes its
\* posts_experts rows.
DestroyedPost(d, p) == [d EXCEPT ![p] = PostRow(FALSE, d[p].expert_id, <<>>)]

RECURSIVE WithoutExpert(_, _)
WithoutExpert(rows, expertId) ==
    IF rows = <<>> THEN <<>>
    ELSE IF Head(rows) = expertId THEN WithoutExpert(Tail(rows), expertId)
    ELSE <<Head(rows)>> \o WithoutExpert(Tail(rows), expertId)

\* The join rows left as they are.
RowsKept(d, expertId) == d
\* knex('posts_experts').where('expert_id', expertId).del()
RowsDeleted(d, expertId) ==
    [p \in PostIds |-> [d[p] EXCEPT !.rows = WithoutExpert(d[p].rows, expertId)]]

Txn(pc, id, callerTxn, before, work, pending, outcome, steps) ==
    [pc |-> pc, id |-> id, callerTxn |-> callerTxn, before |-> before, work |-> work,
     pending |-> pending, outcome |-> outcome, steps |-> steps]

\* No id: rejected before anything is touched.
DestroyNoId ==
    /\ txn.pc = "called"
    /\ txn.id = UNDEFINED
    /\ txn' = [txn EXCEPT !.pc = "done", !.outcome = "NotFoundError"]
    /\ UNCHANGED <<db, saveVars, permVars, serVars, helperVars>>

\* The transaction is the caller's or a new one; the posts are fetched in it.
DestroyFetch ==
    /\ txn.pc = "called"
    /\ txn.id # UNDEFINED
    /\ txn' = [txn EXCEPT !.pc = "destroying",
                          !.pending = PostsByExpertId(txn.work, txn.id),
                          !.steps = Append(txn.steps, "fetch")]
    /\ UNCHANGED <<db, saveVars, permVars, serVars, helperVars>>

\* invokeThen('destroy'): one post of the fetched collection is destroyed.
DestroyPost ==
    /\ txn.pc = "destroying"
    /\ \E p \in txn.pending :
          txn' = [txn EXCEPT !.work = DestroyedPost(txn.work, p),
                             !.pending = txn.pending \ {p},
                             !.steps = Append(txn.steps, "destroy")]
    /\ UNCHANGED <<db, saveVars, permVars, serVars, helperVars>>

\* Once every destroy has resolved, the remaining join rows are deleted.
DestroyRows ==
    /\ txn.pc = "destroying"
    /\ txn.pending = {}
    /\ txn' = [txn EXCEPT !.pc = "deleted",
                          !.work = RowsDeleted(txn.work, txn.id),
                          !.steps = Append(txn.steps, "del")]
    /\ UNCHANGED <<db, saveVars, permVars, serVars, helperVars>>

\* The chain resolved: a transaction of its own is committed, the caller's is
\* left to the caller.
DestroyResolve ==
    /\ txn.pc = "deleted"
    /\ txn' = [txn EXCEPT !.pc = "done", !.outcome = "resolved"]
    /\ db' = IF txn.callerTxn THEN db ELSE txn.work
    /\ UNCHANGED <<saveVars, permVars, serVars, helperVars>>

\* A query fails: the catch wraps the error; a transaction of its own is
\* rolled back.
DestroyFail ==
    /\ txn.pc = "destroying"
    /\ txn' = [txn EXCEPT !.pc = "done", !.outcome = "GhostError",
                          !.work = IF txn.callerTxn THEN txn.work ELSE db]
    /\ UNCHANGED <<db, saveVars, permVars, serVars, helperVars>>

\* Stored posts: every post has experts and expert_id is the first of them.
StoredPosts == {PostRow(TRUE, x[1], x) : x \in RelatedLists}

InitDestroy ==
    /\ \E stored \in [PostIds -> StoredPosts] : db = stored
    /\ \E id \in Users \cup {UNDEFINED}, callerTxn \in BOOLEAN :
          txn = Txn("called", id, callerTxn, db, db, {}, "pending", <<>>)
    /\ model = Idle /\ sent = Idle /\ saveRes = Idle
    /\ permIn = Idle /\ permRes = Idle
    /\ serModel = Idle /\ serOut = Idle
    /\ helperIn = Idle /\ helperOut = Idle

NextDestroy ==
    \/ DestroyNoId \/ DestroyFetch \/ DestroyPost \/ DestroyRows
    \/ DestroyResolve \/ DestroyFail

SpecDestroy == InitDestroy /\ [][NextDestroy]_vars

(***************************************************************************)
(* Properties of destroyByExpert                                           *)
(***************************************************************************)
\* The database as the call leaves it: committed, or in the caller's transaction.
DestroyView == IF txn.callerTxn THEN txn.work ELSE db
RowsName(d, p, u) == \E i \in 1..Len(d[p].rows) : d[p].rows[i] = u
OtherExperts(rows, u) == SelectSeq(rows, LAMBDA x : x # u)
StepsBefore(i, step) == \A j \in 1..(i - 1) : txn.steps[j] # step

\* C8: without an id the call rejects with NotFoundError and deletes nothing;
\* with an id it works in one transaction, destroys every post whose
\* expert_id is the id and only afterwards deletes the remaining join rows of
\* that expert, so that on success no post has the user as primary expert, no
\* join row names the user and the posts where the user was a secondary
\* expert still exist with their other experts unchanged; a failure surfaces
\* as a GhostError.
C8_DestroyByExpert ==
    /\ (txn.pc = "done" /\ txn.id = UNDEFINED) =>
           /\ txn.outcome = "NotFoundError"
           /\ db = txn.before /\ txn.work = txn.before /\ txn.steps = <<>>
    /\ (txn.pc = "done" /\ txn.id # UNDEFINED) => txn.outcome \in {"resolved", "GhostError"}
    \* nothing is visible outside the transaction before the call resolves
    /\ txn.outcome # "resolved" => db = txn.before
    \* the join rows are deleted once, after every destroy
    /\ \A i \in 1..Len(txn.steps) :
           /\ txn.steps[i] = "destroy" => StepsBefore(i, "del")
           /\ txn.steps[i] = "del" =>
                  /\ StepsBefore(i, "del")
                  /\ PostsByExpertId(txn.work, txn.id) = {}
    /\ txn.outcome = "resolved" =>
           \A p \in PostIds :
               /\ ~(DestroyView[p].alive /\ DestroyView[p].expert_id = txn.id)
               /\ ~RowsName(DestroyView, p, txn.id)
               /\ txn.before[p].expert_id = txn.id => ~DestroyView[p].alive
               /\ txn.before[p].expert_id # txn.id =>
                      /\ DestroyView[p].alive
                      /\ DestroyView[p].expert_id = txn.before[p].expert_id
                      /\ DestroyView[p].rows = OtherExperts(txn.before[p].rows, txn.id)

C8_Witness ==
    /\ txn.outcome = "resolved"
    /\ ~txn.callerTxn
    /\ \E p \in PostIds : txn.before[p].expert_id = txn.id /\ ~db[p].alive
    /\ \E p \in PostIds :
          /\ txn.before[p].expert_id # txn.id
          /\ RowsName(txn.before, p, txn.id)
          /\ db[p].alive /\ db[p].rows = <<txn.before[p].expert_id>>

(***************************************************************************)
(* The {{experts}} helper                                                  *)
(*                                                                         *)
(* Strings are sequences of pieces, the empty string being <<>>.           *)
(* helperIn holds `this.experts` and the hash of the helper call.          *)
(***************************************************************************)
MaxExperts == 3
MaxPos == 3

\* An optional value of the hash: None when the key is absent (undefined, or
\* NaN for a number).
None == <<>>
Some(v) == <<v>>
Get(option, default) == IF option = None THEN default ELSE option[1]

Truthy(n) == n # None /\ n # Some(0)

RECURSIVE Join(_, _)
\* Array.prototype.join
Join(strings, separator) ==
    IF Len(strings) = 0 THEN <<>>
    ELSE IF Len(strings) = 1 THEN strings[1]
    ELSE strings[1] \o separator \o Join(Tail(strings), separator)

\* Array.prototype.slice(start, end)
Slice(arr, start, end) ==
    LET len == Len(arr)
        rel(k) == IF k < 0 THEN (IF len + k < 0 THEN 0 ELSE len + k)
                  ELSE (IF k > len THEN len ELSE k)
        s == rel(start)
        e == rel(end)
    IN IF e <= s THEN <<>> ELSE [k \in 1..(e - s) |-> arr[s + k]]

\* _.escape
Escape(name) == [i \in 1..Len(name) |-> IF name[i] = "&" THEN "&amp;" ELSE name[i]]

\* processExpert
ProcessExpert(expert, autolink) ==
    IF autolink
    THEN <<"<a href=\"/expert/", expert.id, "/\">">> \o Escape(expert.name) \o <<"</a>">>
    ELSE Escape(expert.name)

\* visibility.filter of @tryghost/helpers: the items the visibility option
\* admits ('public' when there is none), each passed through processExpert.
RECURSIVE VisibilityFilter(_, _, _)
VisibilityFilter(items, visibility, autolink) ==
    IF items = <<>> THEN <<>>
    ELSE LET wanted == IF visibility = UNDEFINED THEN "public" ELSE visibility
             keep == wanted = "all" \/ Head(items).visibility = wanted
             rest == VisibilityFilter(Tail(items), visibility, autolink)
         IN IF keep THEN <<ProcessExpert(Head(items), autolink)>> \o rest ELSE rest

createExpertsList(h) == VisibilityFilter(h.experts, h.visibility, h.autolink)

\* limit + from: NaN when limit is undefined.
Plus(a, b) == IF a = None THEN None ELSE Some(a[1] + b)

\* to = to || limit + from || output.length, `from` being 0-indexed by now.
WindowEnd(to, limit, from0, length) ==
    IF Truthy(to) THEN to[1]
    ELSE IF Truthy(Plus(limit, from0)) THEN Plus(limit, from0)[1]
    ELSE length

experts(h) ==
    LET separator == Get(h.separator, <<", ">>)
        prefix == Get(h.prefix, <<>>)
        suffix == Get(h.suffix, <<>>)
        from == Get(h.from, 1)
        output == IF h.hasExperts /\ Len(h.experts) > 0
                  THEN LET list == createExpertsList(h)
                           from0 == from - 1
                           to == WindowEnd(h.to, h.limit, from0, Len(list))
                       IN Join(Slice(list, from0, to), separator)
                  ELSE <<>>
    IN IF output # <<>> THEN prefix \o output \o suffix ELSE output

Render ==
    /\ helperOut.pc = "called"
    /\ helperOut' = [pc |-> "rendered", output |-> experts(helperIn)]
    /\ UNCHANGED <<helperIn, saveVars, permVars, serVars, destroyVars>>

\* An expert of the post context: a plain name, a name that needs escaping
\* or no name, public or internal.
HelperExperts ==
    {[id |-> "u1", name |-> <<"A">>, visibility |-> "public"],
     [id |-> "u2", name |-> <<"B", "&">>, visibility |-> "internal"],
     [id |-> "u3", name |-> <<>>, visibility |-> "public"]}

Positions == {None} \cup {Some(n) : n \in 1..MaxPos}
Limits == {None} \cup {Some(n) : n \in 0..MaxPos}

HelperInput(he, x, al, v, sep, affix, f, t, l) ==
    [hasExperts |-> he, experts |-> IF he THEN x ELSE <<>>,
     autolink |-> al, visibility |-> v,
     separator |-> sep, prefix |-> IF affix THEN Some(<<"by ">>) ELSE None,
     suffix |-> IF affix THEN Some(<<".">>) ELSE None,
     from |-> f, to |-> t, limit |-> l]

InitHelper ==
    /\ \E he \in BOOLEAN, x \in SeqsUpTo(HelperExperts, MaxExperts),
          al \in BOOLEAN, v \in {UNDEFINED, "all"},
          sep \in {None, Some(<<" - ">>)}, affix \in BOOLEAN,
          f \in Positions, t \in Positions, l \in Limits :
          helperIn = HelperInput(he, x, al, v, sep, affix, f, t, l)
    /\ helperOut = [pc |-> "called", output |-> <<>>]
    /\ model = Idle /\ sent = Idle /\ saveRes = Idle
    /\ permIn = Idle /\ permRes = Idle
    /\ serModel = Idle /\ serOut = Idle
    /\ db = Idle /\ txn = Idle

NextHelper == Render

SpecHelper == InitHelper /\ [][NextHelper]_vars

(***************************************************************************)
(* Properties of the {{experts}} helper                                    *)
(***************************************************************************)
Rendered == helperOut.pc = "rendered"
\* The visibility-filtered list, each entry rendered.
FilteredList == IF helperIn.hasExperts THEN createExpertsList(helperIn) ELSE <<>>
Least(a, b) == IF a < b THEN a ELSE b
\* 1-indexed positions of the window the hash asks for.
WindowFirst == Get(helperIn.from, 1)
WindowLast ==
    IF helperIn.to # None THEN Least(helperIn.to[1], Len(FilteredList))
    ELSE IF helperIn.limit # None
         THEN Least(WindowFirst + helperIn.limit[1] - 1, Len(FilteredList))
         ELSE Len(FilteredList)
WindowEntries ==
    IF WindowLast < WindowFirst THEN <<>>
    ELSE [k \in 1..(WindowLast - WindowFirst + 1) |-> FilteredList[WindowFirst + k - 1]]
WindowText == Join(WindowEntries, Get(helperIn.separator, <<", ">>))

\* C9: the helper renders the entries of the filtered list at positions `from`
\* (default 1) to `to` inclusive when `to` is given, otherwise `limit` entries
\* from `from` when `limit` is given, otherwise all entries from `from` on, in
\* order and joined by the separator; prefix and suffix are added only when
\* an entry is rendered, and the output is empty otherwise.
C9_ExpertsWindow ==
    Rendered =>
        IF WindowEntries = <<>> THEN helperOut.output = <<>>
        ELSE \/ helperOut.output = WindowText
             \/ helperOut.output =
                    Get(helperIn.prefix, <<>>) \o WindowText \o Get(helperIn.suffix, <<>>)

=============================================================================
